---- MODULE Spec2Model ----
(***************************************************************************)
(* SentryData compiler (src/sentrydata.py): the hand-written lexer         *)
(* (SentryDataCompiler.lexical_analysis) and the stack machine             *)
(* (execute_stack_machine / process_token / execute_bin_op).               *)
(*                                                                         *)
(* Text is a sequence of one-character strings.  A Python value on the     *)
(* operand stack is a record [tag, num, den, txt]:                         *)
(*   tag = "float": the number num/den in lowest terms (den > 0),          *)
(*   tag = "int"  : the integer num (den = 1); arises from bool arithmetic,*)
(*   tag = "bool" : num = 1 for True, 0 for False (bool is an int),        *)
(*   tag = "str"  : the text txt.                                          *)
(* Floats are kept as exact rationals: rounding of IEEE doubles is not     *)
(* modelled.  An exception that leaves a method ends it in "lex_raised" or *)
(* "exec_raised".                                                          *)
(***************************************************************************)
EXTENDS Integers, Sequences, FiniteSets, TLC

VARIABLES
    pc,             \* position: "idle"; "lex_line", "lex_scan", "lexed", "lex_raised";
                    \* "exec", "returned", "exec_raised"
    code,           \* lexical_analysis: the argument code
    tokens,         \* self.tokens
    errors,         \* self.errors
    stack,          \* self.stack
    current_line,   \* self.current_line
    lines,          \* lexical_analysis: lines = code.splitlines()
    line_index,     \* lexical_analysis: index of the for loop (0-based; Len(lines) when exhausted)
    line,           \* lexical_analysis: the stripped line being scanned
    i,              \* lexical_analysis: scan index into line (0-based)
    column,         \* lexical_analysis: column counter
    exec_tokens,    \* execute_stack_machine: the argument tokens
    index,          \* execute_stack_machine: number of loop iterations completed
    execution_log,  \* execute_stack_machine: the local execution_log
    exception,      \* the exception that left the running method ("" when none)
    runs            \* number of method calls made on this compiler object so far

vars == <<pc, code, tokens, errors, stack, current_line, lines, line_index, line, i,
          column, exec_tokens, index, execution_log, exception, runs>>

lexVars == <<code, lines, line_index, line, i, column>>
execVars == <<exec_tokens, index, execution_log>>

\* ------------------------------------------------------------------ bounds
MaxTokens == 3      \* longest token list handed directly to execute_stack_machine
MaxRuns == 2        \* calls of execute_stack_machine on one compiler object
MaxPieces == 3      \* source texts are concatenations of at most this many pieces

\* ------------------------------------------------------------- Python values
Abs(n) == IF n < 0 THEN -n ELSE n

RECURSIVE GCD(_, _)
GCD(a, b) == IF b = 0 THEN a ELSE GCD(b, a % b)

\* the float n/d, in lowest terms with a positive denominator
Float(n, d) ==
    LET s == IF d < 0 THEN -1 ELSE 1
        g == GCD(Abs(n), Abs(d))
    IN  [tag |-> "float", num |-> (s * n) \div g, den |-> (s * d) \div g, txt |-> <<>>]

PyInt(n) == [tag |-> "int", num |-> n, den |-> 1, txt |-> <<>>]
PyBool(b) == [tag |-> "bool", num |-> IF b THEN 1 ELSE 0, den |-> 1, txt |-> <<>>]
PyStr(s) == [tag |-> "str", num |-> 0, den |-> 1, txt |-> s]

IsNumber(v) == v.tag \in {"float", "int", "bool"}
IsIntegral(v) == v.tag \in {"int", "bool"}
IsStr(v) == v.tag = "str"

\* Truthy with a slip: only the numeric field is looked at, so every text is falsy
TruthyNumericOnly(v) == v.num # 0

\* bool(v): zero, empty text and False are falsy
Truthy(v) == IF IsStr(v) THEN v.txt # <<>> ELSE v.num # 0

\* code points of the characters the model's texts are made of
Ord(c) ==
    CASE c = "\n" -> 10 [] c = " " -> 32 [] c = "!" -> 33 [] c = "\"" -> 34
      [] c = "#" -> 35 [] c = "*" -> 42 [] c = "+" -> 43 [] c = "-" -> 45
      [] c = "." -> 46 [] c = "/" -> 47 [] c = "0" -> 48 [] c = "1" -> 49
      [] c = "2" -> 50 [] c = "<" -> 60 [] c = "=" -> 61 [] c = ">" -> 62
      [] c = "A" -> 65 [] c = "D" -> 68 [] c = "F" -> 70 [] c = "I" -> 73
      [] c = "N" -> 78 [] c = "O" -> 79 [] c = "R" -> 82 [] c = "T" -> 84
      [] c = "_" -> 95 [] c = "a" -> 97 [] c = "d" -> 100 [] c = "f" -> 102
      [] c = "i" -> 105 [] c = "n" -> 110 [] c = "o" -> 111 [] c = "r" -> 114
      [] c = "t" -> 116 [] c = "x" -> 120

\* s < t for two texts (Python compares str by code point, shorter prefix first)
RECURSIVE StrLess(_, _)
StrLess(s, t) ==
    IF t = <<>> THEN FALSE
    ELSE IF s = <<>> THEN TRUE
    ELSE IF Head(s) = Head(t) THEN StrLess(Tail(s), Tail(t))
    ELSE Ord(Head(s)) < Ord(Head(t))

\* s repeated n times (n <= 0 gives the empty text)
RECURSIVE Repeat(_, _)
Repeat(s, n) == IF n <= 0 THEN <<>> ELSE s \o Repeat(s, n - 1)

NumLess(x, y) == x.num * y.den < y.num * x.den
NumEq(x, y) == x.num * y.den = y.num * x.den

\* the outcome of evaluating a Python expression: a value, or an exception
Value(v) == [ok |-> TRUE, val |-> v, exc |-> ""]
Raise(e) == [ok |-> FALSE, val |-> PyBool(FALSE), exc |-> e]

\* result type of + - * on two numbers: float if either is a float, else int
Arith(x, y, n, d) ==
    IF x.tag = "float" \/ y.tag = "float" THEN Float(n, d) ELSE PyInt(n \div d)

\* x + y
PyAdd(x, y) ==
    IF IsNumber(x) /\ IsNumber(y)
    THEN Value(Arith(x, y, x.num * y.den + y.num * x.den, x.den * y.den))
    ELSE IF IsStr(x) /\ IsStr(y) THEN Value(PyStr(x.txt \o y.txt))
    ELSE Raise("TypeError")

\* x - y
PySub(x, y) ==
    IF IsNumber(x) /\ IsNumber(y)
    THEN Value(Arith(x, y, x.num * y.den - y.num * x.den, x.den * y.den))
    ELSE Raise("TypeError")

\* x * y
PyMul(x, y) ==
    IF IsNumber(x) /\ IsNumber(y)
    THEN Value(Arith(x, y, x.num * y.num, x.den * y.den))
    ELSE IF IsStr(x) /\ IsIntegral(y) THEN Value(PyStr(Repeat(x.txt, y.num)))
    ELSE IF IsIntegral(x) /\ IsStr(y) THEN Value(PyStr(Repeat(y.txt, x.num)))
    ELSE Raise("TypeError")

\* x / y (true division: always a float)
PyDiv(x, y) ==
    IF IsNumber(x) /\ IsNumber(y)
    THEN IF y.num = 0 THEN Raise("ZeroDivisionError")
         ELSE Value(Float(x.num * y.den, x.den * y.num))
    ELSE Raise("TypeError")

\* x == y
PyEq(x, y) ==
    IF IsNumber(x) /\ IsNumber(y) THEN NumEq(x, y)
    ELSE IF IsStr(x) /\ IsStr(y) THEN x.txt = y.txt
    ELSE FALSE

\* x < y
PyLt(x, y) ==
    IF IsNumber(x) /\ IsNumber(y) THEN Value(PyBool(NumLess(x, y)))
    ELSE IF IsStr(x) /\ IsStr(y) THEN Value(PyBool(StrLess(x.txt, y.txt)))
    ELSE Raise("TypeError")

\* x <= y
PyLe(x, y) ==
    IF IsNumber(x) /\ IsNumber(y) THEN Value(PyBool(~NumLess(y, x)))
    ELSE IF IsStr(x) /\ IsStr(y) THEN Value(PyBool(~StrLess(y.txt, x.txt)))
    ELSE Raise("TypeError")

\* x > y
PyGt(x, y) == PyLt(y, x)

\* x >= y
PyGe(x, y) == PyLe(y, x)

\* ch.upper() for the letters of the model's texts
Upper(c) ==
    CASE c = "a" -> "A" [] c = "d" -> "D" [] c = "f" -> "F" [] c = "i" -> "I"
      [] c = "n" -> "N" [] c = "o" -> "O" [] c = "r" -> "R" [] c = "t" -> "T"
      [] c = "x" -> "X" [] OTHER -> c

\* s.upper()
UpperStr(s) == [k \in 1..Len(s) |-> Upper(s[k])]

\* ------------------------------------------------------------ data classes
Token(type, value, line_, column_) ==
    [type |-> type, value |-> value, line |-> line_, column |-> column_]

CompilerError(line_, type, description) ==
    [line |-> line_, type |-> type, description |-> description]

\* the keyword texts
KW_AND == <<"A", "N", "D">>
KW_OR == <<"O", "R">>
KW_NOT == <<"N", "O", "T">>
keywords ==
    { KW_AND, KW_OR, KW_NOT, <<"I", "F">>, <<"T", "H", "E", "N">>,
      <<"E", "L", "S", "E">>, <<"E", "N", "D", "I", "F">>,
      <<"D", "E", "L", "E", "T", "E">>, <<"M", "O", "D", "I", "F", "Y">>,
      <<"E", "X", "T", "R", "A", "C", "T">>, <<"F", "I", "L", "T", "E", "R">>,
      <<"L", "O", "A", "D">>, <<"S", "A", "V", "E">>, <<"D", "U", "P">>,
      <<"D", "R", "O", "P">>, <<"S", "W", "A", "P">>, <<"P", "R", "I", "N", "T">> }

\* -------------------------------------------------------------------- lexer
\* str.isspace, str.isdigit, str.isalpha on ASCII text
Spaces == {" ", "\t"}
Digits == {"0", "1", "2", "3", "4", "5", "6", "7", "8", "9"}
Letters ==
    {"a", "b", "c", "d", "e", "f", "g", "h", "i", "j", "k", "l", "m", "n", "o",
     "p", "q", "r", "s", "t", "u", "v", "w", "x", "y", "z",
     "A", "B", "C", "D", "E", "F", "G", "H", "I", "J", "K", "L", "M", "N", "O",
     "P", "Q", "R", "S", "T", "U", "V", "W", "X", "Y", "Z"}

Min(S) == CHOOSE m \in S : \A n \in S : m <= n

\* code.splitlines() for text whose only line break is "\n"
RECURSIVE SplitLines(_)
SplitLines(s) ==
    IF s = <<>> THEN <<>>
    ELSE LET breaks == {k \in 1..Len(s) : s[k] = "\n"}
         IN  IF breaks = {} THEN <<s>>
             ELSE <<SubSeq(s, 1, Min(breaks) - 1)>>
                  \o SplitLines(SubSeq(s, Min(breaks) + 1, Len(s)))

\* raw_line.strip()
RECURSIVE Strip(_)
Strip(s) ==
    IF s = <<>> THEN s
    ELSE IF Head(s) \in Spaces THEN Strip(Tail(s))
    ELSE IF s[Len(s)] \in Spaces THEN Strip(SubSeq(s, 1, Len(s) - 1))
    ELSE s

\* StartsWithComment with a slip: a // anywhere in the line makes it a comment
ContainsComment(s) == \E k \in 1..(Len(s) - 1) : s[k] = "/" /\ s[k + 1] = "/"
\* line.startswith("//")
StartsWithComment(s) == Len(s) >= 2 /\ s[1] = "/" /\ s[2] = "/"

\* an inner `while i < len(line) and line[i] in Class`: the 1-based position
\* of the first character from `from` on that is not in Class (Len(s) + 1 if none)
ScanWhile(s, from, Class) ==
    LET stops == {k \in from..Len(s) : s[k] \notin Class}
    IN  IF stops = {} THEN Len(s) + 1 ELSE Min(stops)

\* the inner `while i < len(line) and line[i] != '"'`
ScanToQuote(s, from) ==
    LET stops == {k \in from..Len(s) : s[k] = "\""}
    IN  IF stops = {} THEN Len(s) + 1 ELSE Min(stops)

DigitValue(c) ==
    CASE c = "0" -> 0 [] c = "1" -> 1 [] c = "2" -> 2 [] c = "3" -> 3
      [] c = "4" -> 4 [] c = "5" -> 5 [] c = "6" -> 6 [] c = "7" -> 7
      [] c = "8" -> 8 [] c = "9" -> 9

RECURSIVE Pow10(_)
Pow10(n) == IF n = 0 THEN 1 ELSE 10 * Pow10(n - 1)

\* the decimal value of a text of digits
RECURSIVE DigitsValue(_)
DigitsValue(s) ==
    IF s = <<>> THEN 0
    ELSE 10 * DigitsValue(SubSeq(s, 1, Len(s) - 1)) + DigitValue(s[Len(s)])

\* float(num) for a text of digits and "." that starts with a digit: a value,
\* or ValueError when it holds more than one "."
ParseFloat(num) ==
    LET dots == {k \in 1..Len(num) : num[k] = "."}
    IN  IF dots = {} THEN Value(Float(DigitsValue(num), 1))
        ELSE IF Cardinality(dots) > 1 THEN Raise("ValueError")
        ELSE LET d == Min(dots)
                 whole == SubSeq(num, 1, d - 1)
                 frac == SubSeq(num, d + 1, Len(num))
             IN  Value(Float(DigitsValue(whole \o frac), Pow10(Len(frac))))

\* the operators table: its keys, and the token type of a key
operators ==
    {<<"=", "=">>, <<"!", "=">>, <<"<", "=">>, <<">", "=">>,
     <<"+">>, <<"-">>, <<"*">>, <<"/">>, <<"<">>, <<">">>}

OperatorType(key) ==
    CASE key = <<"=", "=">> -> "OP_EQ" [] key = <<"!", "=">> -> "OP_NEQ"
      [] key = <<"<", "=">> -> "OP_LTE" [] key = <<">", "=">> -> "OP_GTE"
      [] key = <<"+">> -> "OP_ADD" [] key = <<"-">> -> "OP_SUB"
      [] key = <<"*">> -> "OP_MUL" [] key = <<"/">> -> "OP_DIV"
      [] key = <<"<">> -> "OP_LT" [] key = <<">">> -> "OP_GT"

\* lexical_analysis is entered with the argument src
LexicalCall(src) ==
    /\ pc' = "lex_line"
    /\ code' = src
    /\ tokens' = <<>>
    /\ errors' = <<>>
    /\ lines' = SplitLines(src)
    /\ line_index' = 0
    /\ exception' = ""
    /\ runs' = runs + 1
    /\ UNCHANGED <<stack, current_line, line, i, column, execVars>>

\* head of the for loop: the next line is numbered and stripped; an empty line
\* or a // line is skipped, any other is scanned from column 0
LexLine ==
    /\ pc = "lex_line"
    /\ line_index < Len(lines)
    /\ current_line' = line_index + 1
    /\ line' = Strip(lines[line_index + 1])
    /\ IF line' = <<>> \/ StartsWithComment(line')
       THEN /\ line_index' = line_index + 1
            /\ pc' = "lex_line"
            /\ UNCHANGED <<i, column>>
       ELSE /\ column' = 0
            /\ i' = 0
            /\ pc' = "lex_scan"
            /\ UNCHANGED line_index
    /\ UNCHANGED <<code, tokens, errors, stack, lines, execVars, exception, runs>>

\* the while loop ends: on to the next line
LexLineEnd ==
    /\ pc = "lex_scan"
    /\ i >= Len(line)
    /\ line_index' = line_index + 1
    /\ pc' = "lex_line"
    /\ UNCHANGED <<code, tokens, errors, stack, current_line, lines, line, i, column,
                   execVars, exception, runs>>

\* the for loop is exhausted: return self.tokens
LexReturn ==
    /\ pc = "lex_line"
    /\ line_index >= Len(lines)
    /\ pc' = "lexed"
    /\ UNCHANGED <<code, tokens, errors, stack, current_line, lines, line_index, line, i,
                   column, execVars, exception, runs>>

\* the while loop is about to look at ch = line[i]
Scanning == pc = "lex_scan" /\ i < Len(line)
ch == line[i + 1]
scanFrame == <<code, stack, current_line, lines, line_index, line, execVars, runs>>

\* LexSpace with a slip: the column is counted but i is not moved
LexSpaceStalls ==
    /\ Scanning
    /\ ch \in Spaces
    /\ column' = column + 1
    /\ UNCHANGED <<i, pc, tokens, errors, exception, scanFrame>>

\* ch.isspace()
LexSpace ==
    /\ Scanning
    /\ ch \in Spaces
    /\ i' = i + 1
    /\ column' = column + 1
    /\ UNCHANGED <<pc, tokens, errors, exception, scanFrame>>

\* ch.isdigit(): digits and "." are consumed, then float(num)
LexNumber ==
    /\ Scanning
    /\ ch \in Digits
    /\ LET start_col == column
           end == ScanWhile(line, i + 1, Digits \cup {"."})
           num == SubSeq(line, i + 1, end - 1)
           parsed == ParseFloat(num)
       IN  /\ i' = i + Len(num)
           /\ column' = column + Len(num)
           /\ IF parsed.ok
              THEN /\ tokens' = Append(tokens,
                          Token("NUMBER", parsed.val, current_line, start_col))
                   /\ UNCHANGED <<pc, exception>>
              ELSE /\ pc' = "lex_raised"
                   /\ exception' = parsed.exc
                   /\ UNCHANGED tokens
    /\ UNCHANGED <<errors, scanFrame>>

\* LexString with a slip: the unterminated literal is emitted as a STRING token too
LexStringEmitsUnterminated ==
    /\ pc = "lex_scan" /\ i < Len(line)
    /\ line[i + 1] = "\""
    /\ LET start_col == column
           end == ScanToQuote(line, i + 2)
           value == SubSeq(line, i + 2, end - 1)
       IN  /\ tokens' = Append(tokens,
                  Token("STRING", PyStr(value), current_line, start_col))
           /\ IF end <= Len(line)
              THEN /\ i' = i + Len(value) + 2
                   /\ column' = column + Len(value) + 2
                   /\ UNCHANGED errors
              ELSE /\ i' = i + Len(value) + 1
                   /\ column' = column + Len(value) + 1
                   /\ errors' = Append(errors,
                          CompilerError(current_line, "LÉXICO", <<"String sin cerrar">>))
    /\ UNCHANGED <<pc, exception, code, stack, current_line, lines, line_index, line,
                   execVars, runs>>

\* ch == '"': up to the closing quote on the line, or to the end of the line
LexString ==
    /\ Scanning
    /\ ch = "\""
    /\ LET start_col == column
           end == ScanToQuote(line, i + 2)
           value == SubSeq(line, i + 2, end - 1)
       IN  IF end <= Len(line)
           THEN /\ i' = i + Len(value) + 2
                /\ column' = column + Len(value) + 2
                /\ tokens' = Append(tokens,
                       Token("STRING", PyStr(value), current_line, start_col))
                /\ UNCHANGED errors
           ELSE /\ i' = i + Len(value) + 1
                /\ column' = column + Len(value) + 1
                /\ errors' = Append(errors,
                       CompilerError(current_line, "LÉXICO", <<"String sin cerrar">>))
                /\ UNCHANGED tokens
    /\ UNCHANGED <<pc, exception, scanFrame>>

\* ch.isalpha() or ch == "_": identifier or keyword
LexIdentifier ==
    /\ Scanning
    /\ ch \in Letters \cup {"_"}
    /\ LET start_col == column
           end == ScanWhile(line, i + 1, Letters \cup Digits \cup {"_"})
           ident == SubSeq(line, i + 1, end - 1)
           upper == UpperStr(ident)
       IN  /\ i' = i + Len(ident)
           /\ column' = column + Len(ident)
           /\ IF upper \in keywords
              THEN tokens' = Append(tokens,
                       Token("KEYWORD", PyStr(upper), current_line, start_col))
              ELSE tokens' = Append(tokens,
                       Token("IDENTIFIER", PyStr(ident), current_line, start_col))
    /\ UNCHANGED <<pc, errors, exception, scanFrame>>

\* none of the branches above took ch
AtOperator == Scanning /\ ch \notin Spaces \cup Digits \cup {"\""} \cup Letters \cup {"_"}
\* TwoMatches with the bound off by one: the last two characters are not tried
TwoMatchesOffByOne == i + 2 < Len(line) /\ SubSeq(line, i + 1, i + 2) \in operators
\* i + 1 < len(line) and line[i:i+2] in operators
TwoMatches == i + 1 < Len(line) /\ SubSeq(line, i + 1, i + 2) \in operators

\* LexOperator2 with a sign slip: the column moves back by two
LexOperator2ColumnBack ==
    /\ AtOperator
    /\ TwoMatches
    /\ LET two == SubSeq(line, i + 1, i + 2)
       IN  tokens' = Append(tokens,
               Token(OperatorType(two), PyStr(two), current_line, column))
    /\ i' = i + 2
    /\ column' = column - 2
    /\ UNCHANGED <<pc, errors, exception, scanFrame>>

\* a two-character operator
LexOperator2 ==
    /\ AtOperator
    /\ TwoMatches
    /\ LET two == SubSeq(line, i + 1, i + 2)
       IN  tokens' = Append(tokens,
               Token(OperatorType(two), PyStr(two), current_line, column))
    /\ i' = i + 2
    /\ column' = column + 2
    /\ UNCHANGED <<pc, errors, exception, scanFrame>>

\* a one-character operator
LexOperator1 ==
    /\ AtOperator
    /\ ~TwoMatches
    /\ <<ch>> \in operators
    /\ tokens' = Append(tokens,
           Token(OperatorType(<<ch>>), PyStr(<<ch>>), current_line, column))
    /\ i' = i + 1
    /\ column' = column + 1
    /\ UNCHANGED <<pc, errors, exception, scanFrame>>

\* LexUnrecognized with a slip: the rest of the line is given up
LexUnrecognizedSkipsLine ==
    /\ AtOperator
    /\ ~TwoMatches
    /\ <<ch>> \notin operators
    /\ errors' = Append(errors,
           CompilerError(current_line, "LÉXICO", <<"Carácter no reconocido: '", ch, "'">>))
    /\ i' = Len(line)
    /\ column' = Len(line)
    /\ UNCHANGED <<pc, tokens, exception, scanFrame>>

\* any other character
LexUnrecognized ==
    /\ AtOperator
    /\ ~TwoMatches
    /\ <<ch>> \notin operators
    /\ errors' = Append(errors,
           CompilerError(current_line, "LÉXICO", <<"Carácter no reconocido: '", ch, "'">>))
    /\ i' = i + 1
    /\ column' = column + 1
    /\ UNCHANGED <<pc, tokens, exception, scanFrame>>

LexStep ==
    \/ LexLine
    \/ LexLineEnd
    \/ LexSpace
    \/ LexNumber
    \/ LexString
    \/ LexIdentifier
    \/ LexOperator2
    \/ LexOperator1
    \/ LexUnrecognized
    \/ LexReturn

\* ------------------------------------------------------------ stack machine
\* what process_token leaves behind: the stack, the error list, the action text
\* it returns, or the exception that escaped it (exc # "")
Outcome(stk, errs, act, exc) ==
    [stack |-> stk, errors |-> errs, action |-> act, exc |-> exc]

\* the returned f-string, kept as its fixed text and the interpolated fields
Action(text, op, args) == [text |-> text, op |-> op, args |-> args]

\* token types of the binary operators and the op_name handed to execute_bin_op
BinOpTypes ==
    {"OP_ADD", "OP_SUB", "OP_MUL", "OP_DIV", "OP_EQ", "OP_NEQ",
     "OP_LT", "OP_GT", "OP_LTE", "OP_GTE"}

OpName(t) ==
    CASE t = "OP_ADD" -> "+" [] t = "OP_SUB" -> "-" [] t = "OP_MUL" -> "*"
      [] t = "OP_DIV" -> "/" [] t = "OP_EQ" -> "==" [] t = "OP_NEQ" -> "!="
      [] t = "OP_LT" -> "<" [] t = "OP_GT" -> ">" [] t = "OP_LTE" -> "<="
      [] t = "OP_GTE" -> ">="

\* LogicAnd with a slip: `b and a` without the bool() coercions
LogicAndUncoerced(a, b) == Value(IF Truthy(b) THEN a ELSE b)

\* lambda a, b: bool(b) and bool(a)
LogicAnd(a, b) == Value(PyBool(Truthy(b) /\ Truthy(a)))

\* lambda a, b: bool(b) or bool(a)
LogicOr(a, b) == Value(PyBool(Truthy(b) \/ Truthy(a)))

\* the lambda a, b: ... handed to execute_bin_op for op_name
BinFunc(op_name, a, b) ==
    CASE op_name = "+" -> PyAdd(b, a)
      [] op_name = "-" -> PySub(b, a)
      [] op_name = "*" -> PyMul(b, a)
      [] op_name = "/" -> PyDiv(b, a)
      [] op_name = "==" -> Value(PyBool(PyEq(b, a)))
      [] op_name = "!=" -> Value(PyBool(~PyEq(b, a)))
      [] op_name = "<" -> PyLt(b, a)
      [] op_name = ">" -> PyGt(b, a)
      [] op_name = "<=" -> PyLe(b, a)
      [] op_name = ">=" -> PyGe(b, a)
      [] op_name = "AND" -> LogicAnd(a, b)
      [] op_name = "OR" -> LogicOr(a, b)

\* BinOpUnderflow with a slip: the operand that is there is popped before the check
BinOpUnderflowPopsFirst(op_name, stk, errs, cur_line) ==
    Outcome(<<>>,
            Append(errs, CompilerError(cur_line, "EJECUCIÓN",
                   <<"Stack underflow: ", op_name, " requiere 2 operandos">>)),
            Action("ERROR: Stack underflow en ", op_name, <<>>),
            "")

\* BinOpUnderflow with a slip: a diagnostic already in the list is not appended again
BinOpUnderflowDedups(op_name, stk, errs, cur_line) ==
    LET e == CompilerError(cur_line, "EJECUCIÓN",
                 <<"Stack underflow: ", op_name, " requiere 2 operandos">>)
    IN  Outcome(stk,
                IF \E k \in 1..Len(errs) : errs[k] = e THEN errs ELSE Append(errs, e),
                Action("ERROR: Stack underflow en ", op_name, <<>>),
                "")

\* execute_bin_op, the underflow branch
BinOpUnderflow(op_name, stk, errs, cur_line) ==
    Outcome(stk,
            Append(errs, CompilerError(cur_line, "EJECUCIÓN",
                   <<"Stack underflow: ", op_name, " requiere 2 operandos">>)),
            Action("ERROR: Stack underflow en ", op_name, <<>>),
            "")

\* execute_bin_op, the branch that pops a, then b, and pushes func(a, b);
\* when func raises, both operands are already popped
BinOpApply(op_name, stk, errs) ==
    LET a == stk[Len(stk)]
        b == stk[Len(stk) - 1]
        rest == SubSeq(stk, 1, Len(stk) - 2)
        result == BinFunc(op_name, a, b)
    IN  IF result.ok
        THEN Outcome(Append(rest, result.val), errs,
                     Action("BINOP", op_name, <<b, a, result.val>>), "")
        ELSE Outcome(rest, errs, Action("", op_name, <<>>), result.exc)

execute_bin_op(op_name, stk, errs, cur_line) ==
    IF Len(stk) < 2
    THEN BinOpUnderflow(op_name, stk, errs, cur_line)
    ELSE BinOpApply(op_name, stk, errs)

\* PushToken with a slip: an IDENTIFIER is looked up (and found unbound: 0.0)
PushTokenLooksUp(token, stk, errs) ==
    LET v == IF token.type = "IDENTIFIER" THEN Float(0, 1) ELSE token.value
    IN  Outcome(Append(stk, v), errs, Action("PUSH ", "", <<v>>), "")

\* process_token, NUMBER / STRING / IDENTIFIER
PushToken(token, stk, errs) ==
    Outcome(Append(stk, token.value), errs, Action("PUSH ", "", <<token.value>>), "")

\* process_token, KEYWORD NOT
KeywordNot(token, stk, errs) ==
    IF Len(stk) < 1
    THEN Outcome(stk,
                 Append(errs, CompilerError(token.line, "EJECUCIÓN",
                        <<"Stack underflow: NOT requiere 1 operando">>)),
                 Action("ERROR: Stack underflow en NOT", "NOT", <<>>),
                 "")
    ELSE LET a == stk[Len(stk)]
             result == PyBool(~Truthy(a))
         IN  Outcome(Append(SubSeq(stk, 1, Len(stk) - 1), result), errs,
                     Action("NOT: !", "NOT", <<a, result>>), "")

\* KeywordOther with a slip: DROP is carried out
KeywordOtherDrops(kw, stk, errs) ==
    Outcome(IF kw = <<"D", "R", "O", "P">> /\ stk # <<>>
            THEN SubSeq(stk, 1, Len(stk) - 1) ELSE stk,
            errs, Action("KEYWORD (sin implementar)", kw, <<>>), "")

\* process_token, any other KEYWORD
KeywordOther(kw, stk, errs) ==
    Outcome(stk, errs, Action("KEYWORD (sin implementar)", kw, <<>>), "")

process_token(token, stk, errs, cur_line) ==
    LET t == token.type
    IN  IF t \in {"NUMBER", "STRING", "IDENTIFIER"} THEN PushToken(token, stk, errs)
        ELSE IF t \in BinOpTypes THEN execute_bin_op(OpName(t), stk, errs, cur_line)
        ELSE IF t = "KEYWORD"
        THEN LET kw == UpperStr(token.value.txt)
             IN  IF kw = KW_AND THEN execute_bin_op("AND", stk, errs, cur_line)
                 ELSE IF kw = KW_OR THEN execute_bin_op("OR", stk, errs, cur_line)
                 ELSE IF kw = KW_NOT THEN KeywordNot(token, stk, errs)
                 ELSE KeywordOther(kw, stk, errs)
        ELSE Outcome(stk, errs, Action("IGNORADO ", t, <<>>), "")

\* execute_stack_machine is entered with the argument toks
ExecuteCall(toks) ==
    /\ pc' = "exec"
    /\ stack' = <<>>
    /\ exec_tokens' = toks
    /\ index' = 0
    /\ execution_log' = <<>>
    /\ exception' = ""
    /\ runs' = runs + 1
    /\ UNCHANGED <<tokens, errors, current_line, lexVars>>

\* ExecStep with a slip: stack_state is self.stack itself, not a copy of it, so
\* every record shows the stack as it is now
ExecStepAliasesStack ==
    /\ pc = "exec"
    /\ index < Len(exec_tokens)
    /\ LET token == exec_tokens[index + 1]
           r == process_token(token, stack, errors, current_line)
       IN  /\ stack' = r.stack
           /\ errors' = r.errors
           /\ IF r.exc = ""
              THEN /\ execution_log' =
                         [k \in 1..(Len(execution_log) + 1) |->
                            IF k <= Len(execution_log)
                            THEN [execution_log[k] EXCEPT !.stack_state = r.stack]
                            ELSE [step |-> index + 1, token |-> token,
                                  action |-> r.action, stack_state |-> r.stack]]
                   /\ index' = index + 1
                   /\ pc' = "exec"
                   /\ UNCHANGED exception
              ELSE /\ pc' = "exec_raised"
                   /\ exception' = r.exc
                   /\ UNCHANGED <<index, execution_log>>
    /\ UNCHANGED <<tokens, current_line, lexVars, exec_tokens, runs>>

\* one iteration of the for loop of execute_stack_machine
ExecStep ==
    /\ pc = "exec"
    /\ index < Len(exec_tokens)
    /\ LET token == exec_tokens[index + 1]
           r == process_token(token, stack, errors, current_line)
       IN  /\ stack' = r.stack
           /\ errors' = r.errors
           /\ IF r.exc = ""
              THEN /\ execution_log' = Append(execution_log,
                         [step |-> index + 1, token |-> token,
                          action |-> r.action, stack_state |-> r.stack])
                   /\ index' = index + 1
                   /\ pc' = "exec"
                   /\ UNCHANGED exception
              ELSE /\ pc' = "exec_raised"
                   /\ exception' = r.exc
                   /\ UNCHANGED <<index, execution_log>>
    /\ UNCHANGED <<tokens, current_line, lexVars, exec_tokens, runs>>

\* the loop is exhausted: return execution_log
ExecReturn ==
    /\ pc = "exec"
    /\ index = Len(exec_tokens)
    /\ pc' = "returned"
    /\ UNCHANGED <<tokens, errors, stack, current_line, lexVars, execVars, exception, runs>>

\* -------------------------------------------------------------- the object
\* SentryDataCompiler.__init__ (the locals of the two methods are not yet live)
Init ==
    /\ pc = "idle"
    /\ code = <<>>
    /\ tokens = <<>>
    /\ errors = <<>>
    /\ stack = <<>>
    /\ current_line = 1
    /\ lines = <<>>
    /\ line_index = 0
    /\ line = <<>>
    /\ i = 0
    /\ column = 0
    /\ exec_tokens = <<>>
    /\ index = 0
    /\ execution_log = <<>>
    /\ exception = ""
    /\ runs = 0

\* all sequences over S of length at most n
Seqs(S, n) == UNION {[1..k -> S] : k \in 0..n}

\* ---------------------------------------- direct calls of the stack machine
\* the tokens a caller hands to execute_stack_machine: lists over every
\* operator, two numbers, two strings, an identifier, the logic keywords and two
\* others; and lists over every keyword, a number and an operator
OperatorTexts ==
    {<<"OP_ADD", <<"+">>>>, <<"OP_SUB", <<"-">>>>, <<"OP_MUL", <<"*">>>>,
     <<"OP_DIV", <<"/">>>>, <<"OP_EQ", <<"=", "=">>>>, <<"OP_NEQ", <<"!", "=">>>>,
     <<"OP_LT", <<"<">>>>, <<"OP_GT", <<">">>>>, <<"OP_LTE", <<"<", "=">>>>,
     <<"OP_GTE", <<">", "=">>>>}

EvalTokens ==
    {Token("NUMBER", Float(n, 1), 1, 0) : n \in {0, 1}}
    \cup {Token("STRING", PyStr(s), 1, 0) : s \in {<<>>, <<"a">>}}
    \cup {Token("IDENTIFIER", PyStr(<<"x">>), 1, 0)}
    \cup {Token(o[1], PyStr(o[2]), 1, 0) : o \in OperatorTexts}
    \cup {Token("KEYWORD", PyStr(kw), 1, 0) :
             kw \in {KW_AND, KW_OR, KW_NOT, <<"I", "F">>, <<"D", "U", "P">>}}

KeywordTokens ==
    {Token("NUMBER", Float(1, 1), 1, 0), Token("OP_ADD", PyStr(<<"+">>), 1, 0)}
    \cup {Token("KEYWORD", PyStr(kw), 1, 0) : kw \in keywords}

EvalInputs == Seqs(EvalTokens, MaxTokens) \cup Seqs(KeywordTokens, MaxTokens)

EvalCall ==
    /\ pc = "idle"
    /\ \E toks \in EvalInputs : ExecuteCall(toks)

EvalNext == EvalCall \/ ExecStep \/ ExecReturn

SpecEval == Init /\ [][EvalNext]_vars

\* ------------------------------------------ one run of main: lex, then execute
\* the source texts main reads: at most MaxPieces of these pieces, concatenated
Pieces ==
    { <<"1">>, <<".">>, <<"\"">>, <<"\"", "a", "\"">>, <<"a">>, <<"N", "O", "T">>,
      <<"+">>, <<"/">>, <<"<">>, <<">">>, <<"=">>, <<"!">>, <<"#">>, <<" ">>, <<"\n">>,
      <<"/", "/">>, <<"\n", "+">> }

RECURSIVE Concat(_)
Concat(ps) == IF ps = <<>> THEN <<>> ELSE Head(ps) \o Concat(Tail(ps))

Sources == {Concat(ps) : ps \in Seqs(Pieces, MaxPieces)}

\* tokens = compiler.lexical_analysis(src) on the compiler main has just constructed
MainLex ==
    /\ pc = "idle"
    /\ \E src \in Sources : LexicalCall(src)

\* exec_log = compiler.execute_stack_machine(tokens)
MainExec ==
    /\ pc = "lexed"
    /\ ExecuteCall(tokens)

Next == MainLex \/ LexStep \/ MainExec \/ ExecStep \/ ExecReturn

Spec == Init /\ [][Next]_vars

\* ------------------------------- one compiler object, evaluated more than once
\* the token lists of the repeated calls
ReuseTokens == {Token("NUMBER", Float(1, 1), 1, 0), Token("OP_ADD", PyStr(<<"+">>), 1, 0)}

\* execute_stack_machine is called on a compiler that may have evaluated before
ReuseCall ==
    /\ pc \in {"idle", "returned", "exec_raised"}
    /\ runs < MaxRuns
    /\ \E toks \in Seqs(ReuseTokens, MaxTokens) : ExecuteCall(toks)

ReuseNext == ReuseCall \/ ExecStep \/ ExecReturn

SpecReuse == Init /\ [][ReuseNext]_vars

\* execute_stack_machine(toks) run to its end on a newly constructed compiler:
\* the loop from token k on, from the stack stk and error list errs
RECURSIVE RunFrom(_, _, _, _)
RunFrom(toks, k, stk, errs) ==
    IF k > Len(toks) THEN [stack |-> stk, errors |-> errs, exc |-> ""]
    ELSE LET r == process_token(toks[k], stk, errs, 1)
         IN  IF r.exc = "" THEN RunFrom(toks, k + 1, r.stack, r.errors)
             ELSE [stack |-> r.stack, errors |-> r.errors, exc |-> r.exc]

FreshRun(toks) == RunFrom(toks, 1, <<>>, <<>>)

\* ------------------------------------------------- stack machine: claims
\* the loop of execute_stack_machine is about to process a token
AtToken == pc = "exec" /\ index < Len(exec_tokens)
CurToken == exec_tokens[index + 1]
IsKeyword(tok, kws) == tok.type = "KEYWORD" /\ UpperStr(tok.value.txt) \in kws
IsBinaryToken(tok) == tok.type \in BinOpTypes \/ IsKeyword(tok, {KW_AND, KW_OR})
Below(stk, n) == SubSeq(stk, 1, Len(stk) - n)
Top(stk) == stk[Len(stk)]
\* the step appended exactly one diagnostic of the given type and kept the rest
AppendsOne(type) ==
    /\ Len(errors') = Len(errors) + 1
    /\ SubSeq(errors', 1, Len(errors)) = errors
    /\ errors'[Len(errors')].type = type
\* the loop goes on to the next token, having logged this one
GoesOn ==
    /\ pc' = "exec"
    /\ index' = index + 1
    /\ exec_tokens' = exec_tokens
    /\ Len(execution_log') = Len(execution_log) + 1
    /\ SubSeq(execution_log', 1, Len(execution_log)) = execution_log
\* the truthiness rule of the specification: zero, empty text and false are falsy
SpecTruthy(v) ==
    ~ \/ (v.tag \in {"float", "int"} /\ v.num = 0)
      \/ (v.tag = "str" /\ v.txt = <<>>)
      \/ (v.tag = "bool" /\ v.num = 0)

\* C1: evaluation never halts early: no exception leaves execute_stack_machine,
\* and the returned trace has one record per input token, in input order, with
\* record k carrying step k and token k.
C1_TracePerToken ==
    /\ pc # "exec_raised"
    /\ pc = "returned" =>
          /\ Len(execution_log) = Len(exec_tokens)
          /\ \A k \in 1..Len(exec_tokens) :
                /\ execution_log[k].step = k
                /\ execution_log[k].token = exec_tokens[k]

\* C2: a binary operator processed on a stack of fewer than 2 values leaves the
\* stack unchanged, appends exactly one EJECUCIÓN stack-underflow diagnostic,
\* and the loop goes on to the next token.
C2_UnderflowKeepsStack ==
    [][ (AtToken /\ IsBinaryToken(CurToken) /\ Len(stack) < 2) =>
            /\ stack' = stack
            /\ AppendsOne("EJECUCIÓN")
            /\ errors'[Len(errors')].description[1] = "Stack underflow: "
            /\ GoesOn ]_vars

\* a binary operator underflowed on a one-value stack and a later token was processed
C2_Witness ==
    \E k \in 1..Len(execution_log) :
        /\ k < Len(execution_log)
        /\ IsBinaryToken(execution_log[k].token)
        /\ execution_log[k].action.text = "ERROR: Stack underflow en "
        /\ Len(execution_log[k].stack_state) = 1
        /\ Len(errors) >= 1

\* what the specification calls b OP a, where it is defined for the arithmetic
\* and comparison operators on numbers
SpecNumResult(t, b, a) ==
    CASE t = "OP_ADD" -> Float(b.num * a.den + a.num * b.den, b.den * a.den)
      [] t = "OP_SUB" -> Float(b.num * a.den - a.num * b.den, b.den * a.den)
      [] t = "OP_MUL" -> Float(b.num * a.num, b.den * a.den)
      [] t = "OP_DIV" -> Float(b.num * a.den, b.den * a.num)
      [] t = "OP_EQ" -> PyBool(b.num * a.den = a.num * b.den)
      [] t = "OP_NEQ" -> PyBool(b.num * a.den # a.num * b.den)
      [] t = "OP_LT" -> PyBool(b.num * a.den < a.num * b.den)
      [] t = "OP_GT" -> PyBool(b.num * a.den > a.num * b.den)
      [] t = "OP_LTE" -> PyBool(b.num * a.den <= a.num * b.den)
      [] t = "OP_GTE" -> PyBool(b.num * a.den >= a.num * b.den)

\* C3: an arithmetic or comparison operator processed on a stack of at least 2
\* values pops a (top) then b, pushes the single result b OP a, appends no
\* diagnostic and leaves every value below the two operands unchanged.
C3_PopTwoPushOne ==
    [][ (AtToken /\ CurToken.type \in BinOpTypes /\ Len(stack) >= 2) =>
            /\ Len(stack') = Len(stack) - 1
            /\ Below(stack', 1) = Below(stack, 2)
            /\ (stack[Len(stack)].tag = "float" /\ stack[Len(stack) - 1].tag = "float"
                /\ ~(CurToken.type = "OP_DIV" /\ stack[Len(stack)].num = 0))
                  => Top(stack') = SpecNumResult(CurToken.type, stack[Len(stack) - 1],
                                                 stack[Len(stack)])
            /\ errors' = errors
            /\ GoesOn ]_vars

\* C4: OP_DIV processed with a zero on top of a stack of at least 2 values does
\* not abort: a result is pushed or a diagnostic is appended, a record is
\* produced for the token, and the loop goes on.
C4_DivisionByZeroNonFatal ==
    [][ (AtToken /\ CurToken.type = "OP_DIV" /\ Len(stack) >= 2
         /\ IsNumber(Top(stack)) /\ Top(stack).num = 0) =>
            /\ pc' # "exec_raised"
            /\ \/ Len(stack') = Len(stack) - 1
               \/ Len(errors') = Len(errors) + 1
            /\ GoesOn ]_vars

\* C5: NOT on a non-empty stack replaces only the top value by its logical
\* negation under the truthiness rule; NOT on an empty stack leaves it empty and
\* appends exactly one EJECUCIÓN diagnostic; either way the loop goes on.
C5_NotNegatesTop ==
    [][ (AtToken /\ IsKeyword(CurToken, {KW_NOT})) =>
            /\ Len(stack) >= 1 =>
                  /\ stack' = Append(Below(stack, 1), PyBool(~SpecTruthy(Top(stack))))
                  /\ errors' = errors
            /\ Len(stack) = 0 =>
                  /\ stack' = <<>>
                  /\ AppendsOne("EJECUCIÓN")
            /\ GoesOn ]_vars

\* NOT underflowed on the empty stack, evaluation went on, and a later NOT
\* negated the (falsy) empty text to True
C5_Witness ==
    \E j, k \in 1..Len(execution_log) :
        /\ j < k
        /\ IsKeyword(execution_log[j].token, {KW_NOT})
        /\ execution_log[j].stack_state = <<>>
        /\ IsKeyword(execution_log[k].token, {KW_NOT})
        /\ execution_log[k - 1].stack_state = <<PyStr(<<>>)>>
        /\ execution_log[k].stack_state = <<PyBool(TRUE)>>
        /\ Len(errors) = 1

\* C6: AND / OR on a stack of at least 2 values pop a (top) and b and push the
\* Boolean truthy(b) AND truthy(a), respectively truthy(b) OR truthy(a).
C6_LogicPushesBoolean ==
    [][ (AtToken /\ IsKeyword(CurToken, {KW_AND, KW_OR}) /\ Len(stack) >= 2) =>
            LET a == stack[Len(stack)]
                b == stack[Len(stack) - 1]
            IN  /\ IsKeyword(CurToken, {KW_AND}) =>
                      stack' = Append(Below(stack, 2), PyBool(SpecTruthy(b) /\ SpecTruthy(a)))
                /\ IsKeyword(CurToken, {KW_OR}) =>
                      stack' = Append(Below(stack, 2), PyBool(SpecTruthy(b) \/ SpecTruthy(a)))
                /\ errors' = errors
                /\ GoesOn ]_vars

\* `1 0 AND` has been evaluated and left [False]
C6_Witness ==
    /\ Len(execution_log) = 3
    /\ execution_log[2].stack_state = <<Float(1, 1), Float(0, 1)>>
    /\ IsKeyword(execution_log[3].token, {KW_AND})
    /\ execution_log[3].stack_state = <<PyBool(FALSE)>>

\* the keywords other than AND, OR, NOT
OtherKeywords == keywords \ {KW_AND, KW_OR, KW_NOT}

\* C7: a KEYWORD other than AND, OR, NOT leaves the stack and the error list
\* unchanged and still produces one record; the loop goes on to the next token
\* in input order.
C7_OtherKeywordsNoEffect ==
    [][ (AtToken /\ IsKeyword(CurToken, OtherKeywords)) =>
            /\ stack' = stack
            /\ errors' = errors
            /\ execution_log'[index + 1].token = CurToken
            /\ execution_log'[index + 1].stack_state = stack
            /\ GoesOn ]_vars

\* a control-flow keyword was processed on a non-empty stack, between two other tokens
C7_Witness ==
    /\ Len(execution_log) = 3
    /\ IsKeyword(execution_log[2].token, {<<"I", "F">>})
    /\ execution_log[1].stack_state # <<>>
    /\ execution_log[2].stack_state = execution_log[1].stack_state
    /\ execution_log[3].token.type = "OP_ADD"

\* C8: a NUMBER, STRING or IDENTIFIER token pushes exactly its value (an
\* IDENTIFIER its own name), leaves the values below unchanged and appends no
\* diagnostic.
C8_PushLiteral ==
    [][ (AtToken /\ CurToken.type \in {"NUMBER", "STRING", "IDENTIFIER"}) =>
            /\ stack' = Append(stack, CurToken.value)
            /\ errors' = errors
            /\ GoesOn ]_vars

\* an IDENTIFIER was pushed, as its own name, on top of an earlier value
C8_Witness ==
    \E k \in 2..Len(execution_log) :
        /\ execution_log[k].token.type = "IDENTIFIER"
        /\ execution_log[k].stack_state =
              Append(execution_log[k - 1].stack_state, PyStr(<<"x">>))
        /\ execution_log[k - 1].stack_state # <<>>

\* C9: the stack and the diagnostics of an evaluation depend only on that run's
\* input: execute_stack_machine on a compiler that has evaluated before ends
\* with the same stack and the same error list as on a new compiler.
C9_RunsIndependent ==
    pc = "returned" =>
        /\ stack = FreshRun(exec_tokens).stack
        /\ errors = FreshRun(exec_tokens).errors

\* ------------------------------------------------------- error list: claims
Lexical(es) == SelectSeq(es, LAMBDA e : e.type = "LÉXICO")
Runtime(es) == SelectSeq(es, LAMBDA e : e.type = "EJECUCIÓN")
\* the records of the tokens whose processing failed
FailedRecords(log) ==
    SelectSeq(log, LAMBDA r : r.action.text \in
                  {"ERROR: Stack underflow en ", "ERROR: Stack underflow en NOT"})
\* the diagnostic e is the one the failing token tok produces
DiagnosticOf(e, tok) ==
    IF IsKeyword(tok, {KW_NOT})
    THEN e.description = <<"Stack underflow: NOT requiere 1 operando">>
    ELSE /\ Len(e.description) = 3
         /\ e.description[2] =
               (IF tok.type \in BinOpTypes THEN OpName(tok.type)
                ELSE IF IsKeyword(tok, {KW_AND}) THEN "AND" ELSE "OR")

\* C10: within one run (lexical_analysis, then execute_stack_machine) the error
\* list only grows at its end; every LÉXICO diagnostic precedes every EJECUCIÓN
\* one; the LÉXICO ones are in source-line order; the EJECUCIÓN ones are, one
\* for one and in order, those of the tokens that failed (no deduplication).
C10_ErrorsAccumulateInOrder ==
    [][ /\ Len(errors') >= Len(errors)
        /\ SubSeq(errors', 1, Len(errors)) = errors
        /\ errors' = Lexical(errors') \o Runtime(errors')
        /\ \A j, k \in 1..Len(Lexical(errors')) :
              j < k => Lexical(errors')[j].line <= Lexical(errors')[k].line
        /\ Len(Runtime(errors')) = Len(FailedRecords(execution_log'))
        /\ \A k \in 1..Len(Runtime(errors')) :
              DiagnosticOf(Runtime(errors')[k], FailedRecords(execution_log')[k].token)
      ]_vars

\* a run ended with a lexical diagnostic followed by two equal runtime diagnostics
C10_Witness ==
    /\ pc = "returned"
    /\ Len(Lexical(errors)) >= 1
    /\ \E j, k \in 1..Len(errors) :
          j < k /\ errors[j] = errors[k] /\ errors[j].type = "EJECUCIÓN"

\* ------------------------------------------------------------ lexer: claims
\* the text the number branch consumes from the scan position: digits and "."
ScannedNumber == SubSeq(line, i + 1, ScanWhile(line, i + 1, Digits \cup {"."}) - 1)
DotCount(s) == Cardinality({k \in 1..Len(s) : s[k] = "."})
\* the last diagnostic of the list after the step
LastError == errors'[Len(errors')]

\* C11: a numeric literal whose scanned text holds two or more "." makes the
\* lexer append one LÉXICO diagnostic for the current line and keep scanning;
\* no exception leaves lexical_analysis.
C11_MalformedNumberDiagnosed ==
    [][ (Scanning /\ ch \in Digits /\ DotCount(ScannedNumber) >= 2) =>
            /\ pc' = "lex_scan"
            /\ AppendsOne("LÉXICO")
            /\ LastError.line = current_line
            /\ exception' = "" ]_vars

\* C12: a string opened by a quote with no closing quote on the line yields
\* exactly one LÉXICO diagnostic with that line's number and no token; the
\* tokens scanned so far are kept, the rest of the line is consumed, and the
\* loop then moves on to the next line.
C12_UnterminatedString ==
    [][ /\ (Scanning /\ ch = "\"" /\ \A k \in (i + 2)..Len(line) : line[k] # "\"") =>
              /\ tokens' = tokens
              /\ AppendsOne("LÉXICO")
              /\ LastError.line = line_index + 1
              /\ LastError.description = <<"String sin cerrar">>
              /\ i' = Len(line)
              /\ pc' = "lex_scan" /\ line_index' = line_index /\ lines' = lines
        /\ (pc = "lex_scan" /\ i >= Len(line)) =>
              /\ pc' = "lex_line" /\ line_index' = line_index + 1 /\ lines' = lines
              /\ tokens' = tokens /\ errors' = errors
      ]_vars

\* `a "` on line 1 and `+` on line 2 have been lexed: the identifier is kept,
\* one diagnostic names line 1, no STRING token, and line 2 gave its token
C12_Witness ==
    /\ pc = "lexed"
    /\ Len(lines) = 2
    /\ Len(errors) = 1 /\ errors[1].line = 1
    /\ errors[1].description = <<"String sin cerrar">>
    /\ Len(tokens) = 2
    /\ tokens[1].type = "IDENTIFIER" /\ tokens[1].line = 1
    /\ tokens[2].type = "OP_ADD" /\ tokens[2].line = 2

TwoCharTypes ==
    { <<(<<"=", "=">>), "OP_EQ">>, <<(<<"!", "=">>), "OP_NEQ">>,
      <<(<<"<", "=">>), "OP_LTE">>, <<(<<">", "=">>), "OP_GTE">> }

\* C13: wherever the scanner stands on the first character of `==`, `!=`, `<=`
\* or `>=`, the last two characters of the line included, that step appends
\* exactly one token of type OP_EQ, OP_NEQ, OP_LTE or OP_GTE holding both
\* characters, appends no diagnostic and moves past both characters.
C13_TwoCharPriority ==
    [][ \A p \in TwoCharTypes :
          (Scanning /\ i + 2 <= Len(line) /\ SubSeq(line, i + 1, i + 2) = p[1]) =>
              /\ tokens' = Append(tokens, Token(p[2], PyStr(p[1]), line_index + 1, i))
              /\ errors' = errors
              /\ i' = i + 2
              /\ pc' = "lex_scan"
      ]_vars

\* a one-line source ending in `<=` has been lexed: its last token is OP_LTE
\* at the last two characters, and there is no diagnostic
C13_Witness ==
    /\ pc = "lexed"
    /\ Len(lines) = 1 /\ Len(code) = 3
    /\ errors = <<>>
    /\ Len(tokens) = 2
    /\ tokens[2].type = "OP_LTE" /\ tokens[2].column = Len(code) - 2

\* the characters that start a token or are skipped as whitespace
RecognizedStart ==
    Spaces \cup Digits \cup Letters \cup {"_", "\"", "+", "-", "*", "/", "<", ">"}
\* the scanner stands on a character that starts nothing
AtUnrecognized ==
    /\ Scanning
    /\ ch \notin RecognizedStart
    /\ ~(ch \in {"=", "!"} /\ i + 2 <= Len(line) /\ line[i + 2] = "=")

\* C14: a step on an unrecognized character appends exactly one LÉXICO
\* diagnostic naming that character with the current line number, advances the
\* scan by exactly one character, keeps the tokens and the remaining lines,
\* and leaves the scanner running on the same line.
C14_UnrecognizedNonFatal ==
    [][ AtUnrecognized =>
          /\ AppendsOne("LÉXICO")
          /\ LastError.line = line_index + 1
          /\ LastError.description = <<"Carácter no reconocido: '", ch, "'">>
          /\ i' = i + 1
          /\ tokens' = tokens
          /\ pc' = "lex_scan" /\ exception' = ""
          /\ line' = line /\ lines' = lines /\ line_index' = line_index
      ]_vars

\* `#1` on line 1 and `+` on line 2 have been lexed: one diagnostic on line 1,
\* and the tokens after the bad character, on the same and on the next line
C14_Witness ==
    /\ pc = "lexed"
    /\ code = <<"#", "1", "\n", "+">>
    /\ Len(errors) = 1 /\ errors[1].line = 1 /\ errors[1].type = "LÉXICO"
    /\ Len(tokens) = 2
    /\ tokens[1].type = "NUMBER" /\ tokens[1].line = 1 /\ tokens[1].column = 1
    /\ tokens[2].type = "OP_ADD" /\ tokens[2].line = 2

\* the for loop is about to take the next raw line
AtLine == pc = "lex_line" /\ line_index < Len(lines)
Trimmed == Strip(lines[line_index + 1])
Skippable == Trimmed = <<>> \/ (Len(Trimmed) >= 2 /\ SubSeq(Trimmed, 1, 2) = <<"/", "/">>)

\* C15: a line whose trimmed form is empty or begins with // is passed over
\* with no token and no diagnostic while the line count still advances; any
\* other line is scanned from its first character; every token appended
\* carries the 1-based index of its line in the source; and a // met while
\* scanning inside a line is lexed as a division operator, the scan going on.
C15_SkippedLinesCount ==
    [][ /\ (AtLine /\ Skippable) =>
              /\ tokens' = tokens /\ errors' = errors
              /\ line_index' = line_index + 1 /\ lines' = lines
              /\ pc' = "lex_line"
        /\ (AtLine /\ ~Skippable) =>
              /\ tokens' = tokens /\ errors' = errors
              /\ line' = Trimmed /\ i' = 0
              /\ line_index' = line_index /\ lines' = lines
              /\ pc' = "lex_scan"
        /\ (pc \in {"lex_line", "lex_scan"} /\ Len(tokens') > Len(tokens)) =>
              tokens'[Len(tokens')].line = line_index + 1
        /\ (Scanning /\ ch = "/" /\ i + 2 <= Len(line) /\ line[i + 2] = "/") =>
              /\ tokens' = Append(tokens, Token("OP_DIV", PyStr(<<"/">>), line_index + 1, i))
              /\ errors' = errors
              /\ i' = i + 1 /\ pc' = "lex_scan"
      ]_vars

\* a comment line followed by `+//` has been lexed: nothing from line 1, and
\* line 2 gave its three operator tokens, all numbered 2
C15_Witness ==
    /\ pc = "lexed"
    /\ code = <<"/", "/", "\n", "+", "/", "/">>
    /\ errors = <<>>
    /\ Len(tokens) = 3
    /\ tokens[1].type = "OP_ADD" /\ tokens[2].type = "OP_DIV" /\ tokens[3].type = "OP_DIV"
    /\ \A k \in 1..3 : tokens[k].line = 2

\* C16: every EJECUCIÓN diagnostic carries the line of the token whose
\* processing produced it: the k-th runtime diagnostic has the line of the
\* k-th token that failed, for a binary operator as for NOT.
C16_RuntimeLineIsTokenLine ==
    \A k \in 1..Len(Runtime(errors)) :
        k <= Len(FailedRecords(execution_log)) =>
            Runtime(errors)[k].line = FailedRecords(execution_log)[k].token.line

\* C17: along the token sequence the line numbers never decrease, and of two
\* consecutive tokens on one line the later one's column is not the smaller.
C17_TokenPositionsOrdered ==
    \A k \in 1..(Len(tokens) - 1) :
        /\ tokens[k].line <= tokens[k + 1].line
        /\ tokens[k].line = tokens[k + 1].line => tokens[k].column <= tokens[k + 1].column

\* a lexed line with a token on each side of an unrecognized character
C17_Witness ==
    /\ pc = "lexed"
    /\ code = <<"1", "#", "+">>
    /\ Len(errors) = 1
    /\ Len(tokens) = 2
    /\ tokens[1].line = 1 /\ tokens[1].column = 0
    /\ tokens[2].line = 1 /\ tokens[2].column = 2

\* ------------------------------------------------------ execution log: claims
\* the snapshot of the last record so far (the empty stack before the first)
PrevSnapshot ==
    IF execution_log = <<>> THEN <<>>
    ELSE execution_log[Len(execution_log)].stack_state

\* C18: a step of the loop that appends record i leaves the earlier records as
\* they were; record i has step number i, token i and, as snapshot, the
\* operand stack right after that token; and that snapshot is what processing
\* token i yields from record i-1's snapshot alone (the empty stack for i = 1),
\* whatever the diagnostics and the line counter are.
C18_SnapshotDetermined ==
    [][ pc = "exec" =>
          /\ Len(execution_log') >= Len(execution_log)
          /\ SubSeq(execution_log', 1, Len(execution_log)) = execution_log
          /\ Len(execution_log') > Len(execution_log) =>
                LET rec == execution_log'[Len(execution_log')]
                IN  /\ Len(execution_log') = Len(execution_log) + 1
                    /\ rec.step = Len(execution_log')
                    /\ rec.token = exec_tokens[rec.step]
                    /\ rec.stack_state = stack'
                    /\ rec.stack_state = process_token(rec.token, PrevSnapshot, <<>>, 0).stack
      ]_vars

\* a run has returned three records whose snapshots differ: two pushes, then a
\* binary operator that left one value
C18_Witness ==
    /\ pc = "returned"
    /\ Len(execution_log) = 3
    /\ Len(execution_log[1].stack_state) = 1
    /\ Len(execution_log[2].stack_state) = 2
    /\ Len(execution_log[3].stack_state) = 1
    /\ execution_log[3].token.type \in BinOpTypes
    /\ execution_log[2].stack_state[1] = execution_log[1].stack_state[1]

\* ------------------------------------------------------- termination: claims
\* C19: lexical_analysis makes progress at every step, so it terminates. Each
\* step of the scanning loop, whatever the branch, moves i forward by at least
\* one character and not past the end of the same line (the call then either
\* goes on scanning or ends by raising); the end of a line moves to the next
\* line; the head of the for loop either passes a line, or starts scanning a
\* non-empty line at i = 0, or returns once the lines are exhausted. The pair
\* (lines left, characters left) thus decreases at every step.
C19_LexerAdvances ==
    [][ /\ Scanning =>
              /\ i' > i /\ i' <= Len(line)
              /\ line' = line /\ line_index' = line_index /\ lines' = lines
              /\ pc' \in {"lex_scan", "lex_raised"}
        /\ (pc = "lex_scan" /\ ~Scanning) =>
              /\ line_index' = line_index + 1 /\ lines' = lines
              /\ pc' = "lex_line"
        /\ (pc = "lex_line" /\ line_index < Len(lines)) =>
              /\ lines' = lines
              /\ \/ pc' = "lex_line" /\ line_index' = line_index + 1
                 \/ pc' = "lex_scan" /\ line_index' = line_index /\ i' = 0 /\ Len(line') > 0
        /\ (pc = "lex_line" /\ line_index >= Len(lines)) => pc' = "lexed"
        /\ pc = "lex_raised" => pc' \notin {"lex_line", "lex_scan"}
      ]_vars

\* a line with a number, a blank and an unrecognized character has been lexed
\* to its end, one branch after the other
C19_Witness ==
    /\ pc = "lexed"
    /\ code = <<"1", " ", "#">>
    /\ line_index = 1 /\ i = 3
    /\ Len(tokens) = 1 /\ Len(errors) = 1

====
